---- MODULE Spec2Model ----
(***************************************************************************)
(* Model of the PACK archive tool (0x4d45/m2tw-tools, directory pack/src). *)
(*                                                                         *)
(* Three state machines share this module:                                 *)
(*   SpecReader  - BinaryReader (util.cpp): a cursor over a byte buffer.   *)
(*   SpecOpen    - Pack::open / load_pack: header checks and the loop that *)
(*                 rebuilds every file's chunk list from the chunk table.  *)
(*   Spec        - main / cmd_list / cmd_extract (main.cpp): the main      *)
(*                 thread, the worker threads, the two mutexes, the        *)
(*                 destination tree and the process exit.                  *)
(* SpecChunk is the third machine run on archives that vary the chunk     *)
(* layout of a file; FairSpec is the third machine with the fairness an    *)
(* OS scheduler gives to threads, run on archives of files in a directory. *)
(*                                                                         *)
(* Reads outside an array are undefined behaviour in C++; they are         *)
(* modelled as a nondeterministic choice between any value and a crash.    *)
(***************************************************************************)
EXTENDS Integers, Sequences, FiniteSets, TLC

VARIABLES
    \* ---- BinaryReader (util.hpp:24-33) ----
    buf,          \* the bytes [m_begin, m_end)
    head,         \* m_head - m_begin
    rdOp,         \* last operation executed on the reader
    rdStart,      \* position of m_head when the last operation began
    rdAccess,     \* positions dereferenced by the last operation
    rdVal,        \* value returned by the last operation
    rdErr,        \* TRUE iff the last operation raised an error
    rdState,      \* "ok" | "crashed" (a wild read may fault)
    \* ---- Pack::open / load_pack ----
    opPc,         \* "map" | "header" | "record" | "loop" | "done"
    opResult,     \* "none" | "archive" | "error" | "crashed"
    num_files, chunk_sizes,
    recIdx,       \* loop variable i of the record loop
    rec,          \* fields of the record being processed
    chunk_index, chunk_offset,
    chunks,       \* chunk list of the record being processed
    lookups,      \* indices used on chunk_sizes for the current record
    files,        \* records completed so far
    \* ---- main / cmd_list / cmd_extract ----
    mainPc, cmd, numPaths, archIdx, pack, num_threads, spawned, joined,
    procState, exitCode,
    errLines,     \* lines written by console::error / console::fatal
    termLines,    \* lines written by the runtime's terminate handler
    fatal,        \* what ended the main thread's work ("none" if nothing)
    stdoutLines,
    console_mutex, directory_mutex,
    wpc, wj, warch, wexists, bytes_out, wci, wlog,
    wfatal,       \* per worker: what made it throw or fault ("none" if nothing)
    dirs, extracted

rvars == <<buf, head, rdOp, rdStart, rdAccess, rdVal, rdErr, rdState>>
ovars == <<opPc, opResult, num_files, chunk_sizes, recIdx, rec, chunk_index,
           chunk_offset, chunks, lookups, files>>
mvars == <<mainPc, cmd, numPaths, archIdx, pack, num_threads, spawned, joined,
           procState, exitCode, errLines, termLines, fatal, stdoutLines>>
wvars == <<console_mutex, directory_mutex, wpc, wj, warch, wexists, bytes_out,
           wci, wlog, wfatal, dirs, extracted>>
vars == <<rvars, ovars, mvars, wvars>>

Max(a, b) == IF a >= b THEN a ELSE b

RECURSIVE SumSeq(_)
SumSeq(s) == IF s = <<>> THEN 0 ELSE Head(s) + SumSeq(Tail(s))

SeqsUpTo(S, n) == UNION { [1..k -> S] : k \in 0..n }

\* Each of the three machines leaves the state of the other two alone.
ReaderOnly == UNCHANGED <<ovars, mvars, wvars>>
OpenOnly == UNCHANGED <<rvars, mvars, wvars>>
ToolOnly == UNCHANGED <<rvars, ovars>>

(***************************************************************************)
(*                        BinaryReader  (util.cpp)                         *)
(***************************************************************************)
MaxByte == 2          \* bytes range over 0..MaxByte
MaxBuf == 3           \* longest buffer
MaxPos == 6           \* cap on the cursor position
MaxOver == 2          \* longest run of non-zero bytes found past the end

Byte == 0..MaxByte
AlignSet == {1, 2, 4}

ReaderIdle ==
    /\ buf = <<>> /\ head = 0 /\ rdOp = "init" /\ rdStart = 0
    /\ rdAccess = {} /\ rdVal = 0 /\ rdErr = FALSE /\ rdState = "ok"

\* BinaryReader::BinaryReader: m_head = m_begin, m_end = m_begin + size.
ReaderInit ==
    /\ buf \in SeqsUpTo(Byte, MaxBuf)
    /\ head = 0 /\ rdOp = "init" /\ rdStart = 0
    /\ rdAccess = {} /\ rdVal = 0 /\ rdErr = FALSE /\ rdState = "ok"

\* The values "*(m_begin + p)" can yield: the byte of the buffer when p is
\* inside it, any byte otherwise (the read is outside the mapped object).
Deref(p) == IF p < Len(buf) THEN {buf[p + 1]} ELSE Byte

\* BinaryReader::seek
Seek(offset) ==
    /\ rdState = "ok"
    /\ head' = offset
    /\ rdOp' = "seek" /\ rdStart' = head /\ rdAccess' = {} /\ rdVal' = 0
    /\ UNCHANGED <<buf, rdErr, rdState>>

\* BinaryReader::skip
Skip(amount) ==
    /\ rdState = "ok"
    /\ head + amount <= MaxPos
    /\ head' = head + amount
    /\ rdOp' = "skip" /\ rdStart' = head /\ rdAccess' = {} /\ rdVal' = 0
    /\ UNCHANGED <<buf, rdErr, rdState>>

\* the loop of BinaryReader::align: skip(1) while pos() % boundary != 0
RECURSIVE AlignPos(_, _)
AlignPos(p, boundary) ==
    IF p % boundary = 0 THEN p ELSE AlignPos(p + 1, boundary)

\* BinaryReader::align
Align(boundary) ==
    /\ rdState = "ok"
    /\ AlignPos(head, boundary) <= MaxPos
    /\ head' = AlignPos(head, boundary)
    /\ rdOp' = "align" /\ rdStart' = head /\ rdAccess' = {} /\ rdVal' = 0
    /\ UNCHANGED <<buf, rdErr, rdState>>

\* A read that touches a position outside the buffer may fault.
Crash(op, accessed) ==
    /\ \E p \in accessed : p >= Len(buf)
    /\ rdState' = "crashed"
    /\ rdOp' = op /\ rdStart' = head /\ rdAccess' = accessed /\ rdVal' = 0
    /\ UNCHANGED <<buf, head, rdErr>>

\* BinaryReader::get_u8: result = *m_head; ++m_head.  No comparison with m_end.
GetU8 ==
    /\ rdState = "ok"
    /\ head + 1 <= MaxPos
    /\ \/ \E v \in Deref(head) :
            /\ rdVal' = v
            /\ head' = head + 1
            /\ rdOp' = "u8" /\ rdStart' = head /\ rdAccess' = {head}
            /\ UNCHANGED <<buf, rdErr, rdState>>
       \/ Crash("u8", {head})

\* BinaryReader::get_u32: four get_u8 calls combined least significant first.
GetU32 ==
    /\ rdState = "ok"
    /\ head + 4 <= MaxPos
    /\ \/ \E b0 \in Deref(head), b1 \in Deref(head + 1),
             b2 \in Deref(head + 2), b3 \in Deref(head + 3) :
            /\ rdVal' = b0 + 256 * b1 + 65536 * b2 + 16777216 * b3
            /\ head' = head + 4
            /\ rdOp' = "u32" /\ rdStart' = head
            /\ rdAccess' = head..(head + 3)
            /\ UNCHANGED <<buf, rdErr, rdState>>
       \/ Crash("u32", head..(head + 3))

\* Positions at or after p, inside the buffer, that hold a zero byte.
ZerosFrom(p) == { q \in p..(Len(buf) - 1) : buf[q + 1] = 0 }

\* First position at or after p holding a zero byte (when there is one).
FirstZero(p) == CHOOSE q \in ZerosFrom(p) : \A r \in ZerosFrom(p) : q <= r

\* The bytes of the buffer at positions p .. q-1.
Bytes(p, q) == [k \in 1..(q - p) |-> buf[p + k]]

\* BinaryReader::get_c_str: append *m_head while it is not '\0', then step
\* over the terminator.  No comparison with m_end: when the buffer holds no
\* terminator at or after m_head the scan runs on into foreign memory.
GetCStr ==
    /\ rdState = "ok"
    /\ IF ZerosFrom(head) # {}
       THEN /\ rdVal' = Bytes(head, FirstZero(head))
            /\ head' = FirstZero(head) + 1
            /\ rdOp' = "cstr" /\ rdStart' = head
            /\ rdAccess' = head..FirstZero(head)
            /\ UNCHANGED <<buf, rdErr, rdState>>
       ELSE LET from == Max(head, Len(buf)) IN
            \/ \E g \in SeqsUpTo(Byte \ {0}, MaxOver) :
                 /\ from + Len(g) + 1 <= MaxPos
                 /\ rdVal' = Bytes(head, Max(head, Len(buf))) \o g
                 /\ head' = from + Len(g) + 1
                 /\ rdOp' = "cstr" /\ rdStart' = head
                 /\ rdAccess' = head..(from + Len(g))
                 /\ UNCHANGED <<buf, rdErr, rdState>>
            \/ Crash("cstr", head..from)

\* The operations a caller can apply to the reader, in any order.
ReaderNext ==
    \/ \E offset \in 0..MaxPos : Seek(offset) /\ ReaderOnly
    \/ \E amount \in 0..MaxPos : Skip(amount) /\ ReaderOnly
    \/ \E boundary \in AlignSet : Align(boundary) /\ ReaderOnly
    \/ GetU8 /\ ReaderOnly
    \/ GetU32 /\ ReaderOnly
    \/ GetCStr /\ ReaderOnly

(***************************************************************************)
(*              Pack::open (pack.cpp) / load_pack (main.cpp)               *)
(*                                                                         *)
(* The two functions decode the same layout and rebuild the chunk lists    *)
(* with the same loop.  The decoded header fields, tables and records are  *)
(* the inputs; they range over every value the bytes of a file can hold,   *)
(* within the bounds below.  The bounds keep every sum far below 2^32, so  *)
(* the uint32_t arithmetic of the loop never wraps here.                   *)
(***************************************************************************)
EXPECTED_MAGIC == 1262698832       \* 0x4b434150
EXPECTED_VERSION == 196608         \* 0x30000

MaxFiles == 2         \* largest num_files
MaxChunks == 2        \* largest num_chunks
MaxChunkSize == 2     \* largest entry of chunk_sizes (and of a wild read)
MaxSize == 2          \* largest size_in_pack of a record
MaxOffset == 1        \* largest data offset of a record
MaxDisk == 0          \* largest size_on_disk of a record
MaxIndex == 4         \* cap on chunk_index (stops a run of wild reads)

Words == {EXPECTED_MAGIC, EXPECTED_VERSION, 0}
NoRec == [data_offset |-> 0, first_chunk |-> 0, size_on_disk |-> 0,
          size_in_pack |-> 0]

OpenIdle ==
    /\ opPc = "done" /\ opResult = "none" /\ num_files = 0
    /\ chunk_sizes = <<>> /\ recIdx = 0 /\ rec = NoRec /\ chunk_index = 0
    /\ chunk_offset = 0 /\ chunks = <<>> /\ lookups = {} /\ files = <<>>

OpenInit ==
    /\ opPc = "map" /\ opResult = "none" /\ num_files = 0
    /\ chunk_sizes = <<>> /\ recIdx = 0 /\ rec = NoRec /\ chunk_index = 0
    /\ chunk_offset = 0 /\ chunks = <<>> /\ lookups = {} /\ files = <<>>

\* throw Error(...): open ends without a Pack.
OpenThrow ==
    /\ opPc' = "done" /\ opResult' = "error"
    /\ UNCHANGED <<num_files, chunk_sizes, recIdx, rec, chunk_index,
                   chunk_offset, chunks, lookups, files>>

\* A read through the reader (get_u32, get_c_str, align) that runs past the
\* end of the mapping: nothing checks m_end, the access faults and open ends
\* with neither a Pack nor an Error.
OpenFault ==
    /\ opPc' = "done" /\ opResult' = "crashed"
    /\ UNCHANGED <<num_files, chunk_sizes, recIdx, rec, chunk_index,
                   chunk_offset, chunks, lookups, files>>

\* mmap->map(path, error); if (error) throw
OpenMap ==
    /\ opPc = "map"
    /\ \E error \in BOOLEAN :
         IF error THEN OpenThrow
         ELSE /\ opPc' = "header"
              /\ UNCHANGED <<opResult, num_files, chunk_sizes, recIdx, rec,
                             chunk_index, chunk_offset, chunks, lookups, files>>

\* magic and version checks, then num_files, file_table_size, num_chunks and
\* the two tables (file_offsets is read and never used). The mapping may end
\* before any of these words: the unchecked read then faults.
OpenHeader ==
    /\ opPc = "header"
    /\ \E magic \in Words, version \in Words, short \in BOOLEAN :
         IF short THEN OpenFault
         ELSE IF magic # EXPECTED_MAGIC THEN OpenThrow
         ELSE IF version # EXPECTED_VERSION THEN OpenThrow
         ELSE \E nf \in 0..MaxFiles, sizes \in SeqsUpTo(0..MaxChunkSize, MaxChunks) :
                /\ num_files' = nf
                /\ chunk_sizes' = sizes
                /\ recIdx' = 0
                /\ opPc' = "record"
                /\ UNCHANGED <<opResult, rec, chunk_index, chunk_offset,
                               chunks, lookups, files>>

\* Head of the record loop: read the four words and the path of record i,
\* then chunk_index = first_chunk_index and chunk_offset = first_chunk_offset.
\* The four words and the zero-terminated path are read without a bound: a
\* record cut short, or a path with no terminator before the end of the
\* mapping, faults inside get_u32 or get_c_str.
OpenRecord ==
    /\ opPc = "record"
    /\ recIdx < num_files
    /\ \/ OpenFault
       \/ /\ \E off \in 0..MaxOffset, first \in 0..MaxChunks,
                disk \in 0..MaxDisk, inpack \in 0..MaxSize :
                /\ rec' = [data_offset |-> off, first_chunk |-> first,
                           size_on_disk |-> disk, size_in_pack |-> inpack]
                /\ chunk_index' = first
                /\ chunk_offset' = off
          /\ chunks' = <<>>
          /\ lookups' = {}
          /\ opPc' = "loop"
          /\ UNCHANGED <<opResult, num_files, chunk_sizes, recIdx, files>>

\* The values "chunk_sizes[i]" can yield: the entry when i is inside the
\* vector, anything otherwise (operator[] does not check).
TableRead(i) ==
    IF i < Len(chunk_sizes) THEN {chunk_sizes[i + 1]} ELSE 0..MaxChunkSize

\* One iteration of
\*   while (chunk_offset - first_chunk_offset < size_in_pack) { ... }
OpenLoopStep ==
    /\ opPc = "loop"
    /\ chunk_offset - rec.data_offset < rec.size_in_pack
    /\ chunk_index < MaxIndex
    /\ lookups' = lookups \cup {chunk_index}
    /\ \/ \E chunk_size \in TableRead(chunk_index) :
            /\ chunks' = Append(chunks, [offset |-> chunk_offset,
                                         size |-> chunk_size])
            /\ chunk_index' = chunk_index + 1
            /\ chunk_offset' = chunk_offset + chunk_size
            /\ UNCHANGED <<opPc, opResult, num_files, chunk_sizes, recIdx,
                           rec, files>>
       \/ /\ chunk_index >= Len(chunk_sizes)
          /\ opPc' = "done" /\ opResult' = "crashed"
          /\ UNCHANGED <<num_files, chunk_sizes, recIdx, rec, chunk_index,
                         chunk_offset, chunks, files>>

\* Loop exit: files.emplace_back(path, size_on_disk, chunks); ++i
OpenEmplace ==
    /\ opPc = "loop"
    /\ ~(chunk_offset - rec.data_offset < rec.size_in_pack)
    /\ files' = Append(files, [rec |-> rec, chunks |-> chunks])
    /\ recIdx' = recIdx + 1
    /\ opPc' = "record"
    /\ UNCHANGED <<opResult, num_files, chunk_sizes, rec, chunk_index,
                   chunk_offset, chunks, lookups>>

\* return Pack(path, mmap, files)
OpenReturn ==
    /\ opPc = "record"
    /\ recIdx = num_files
    /\ opPc' = "done" /\ opResult' = "archive"
    /\ UNCHANGED <<num_files, chunk_sizes, recIdx, rec, chunk_index,
                   chunk_offset, chunks, lookups, files>>

OpenNext ==
    \/ OpenMap /\ OpenOnly
    \/ OpenHeader /\ OpenOnly
    \/ OpenRecord /\ OpenOnly
    \/ OpenLoopStep /\ OpenOnly
    \/ OpenEmplace /\ OpenOnly
    \/ OpenReturn /\ OpenOnly

(***************************************************************************)
(*             main, cmd_list, cmd_extract and the worker threads          *)
(*                                                                         *)
(* The archive handed to the workers is the value load_pack returned; it   *)
(* ranges over the archives below.  The destination tree is the set of     *)
(* directories that exist; a call into the file system may also fail for   *)
(* a reason of its own (permissions, a full disk).                         *)
(***************************************************************************)
LZO_BUFFER_SIZE == 65536

MaxThreads == 2       \* largest std::thread::hardware_concurrency()
MaxPaths == 2         \* most archives on the command line
MaxPackFiles == 2     \* most files in one archive
ChunkThreads == 1     \* as MaxThreads, for the chunk-loop exploration
ChunkPaths == 1       \* as MaxPaths, for the chunk-loop exploration
ChunkFiles == 1       \* as MaxPackFiles, for the chunk-loop exploration

NoDir == "."          \* parent_path() of a path without a directory part
PackDirs == {NoDir, "a"}
LzoFail == -1
DecompSizes == {10, 20}                 \* lengths a decompression can yield
LzoResults == {LzoFail} \cup DecompSizes

Chunk1(o, s) == <<[offset |-> o, size |-> s]>>
Chunk2(o, s, t) == <<[offset |-> o, size |-> s], [offset |-> o + s, size |-> t]>>

\* Length of the mapped pack file, and a data offset far past its end
\* (nothing compares chunk.offset with the length of the mapping).
MapSize == 140000
FarOffset == 1073741824

\* File::size_on_disk and File::chunks of the records used to explore the
\* threads: one compressed chunk inside the mapping.
Contents ==
    { [size_on_disk |-> 20, chunks |-> Chunk1(0, 10)] }

\* A compressed chunk whose data offset lies past the end of the mapping:
\* every outcome of the chunk loop (fault, failed or successful
\* decompression) is open to it.
FarContents ==
    { [size_on_disk |-> 20, chunks |-> Chunk1(FarOffset, 10)] }

\* The records used to explore the chunk loop: full-size, short, final and
\* non-final chunks.
ChunkContents ==
    Contents \cup FarContents \cup
    { [size_on_disk |-> 10, chunks |-> Chunk1(0, 10)],
      [size_on_disk |-> 10, chunks |-> Chunk1(FarOffset, 10)],
      [size_on_disk |-> 30, chunks |-> Chunk2(0, 10, 10)],
      [size_on_disk |-> 65546, chunks |-> Chunk2(0, 65536, 10)],
      [size_on_disk |-> 65546, chunks |-> Chunk2(0, 10, 65536)],
      [size_on_disk |-> 0, chunks |-> <<>>] }

PackFiles(contents, dirset) ==
    { [dir |-> d, size_on_disk |-> c.size_on_disk, chunks |-> c.chunks] :
        d \in dirset, c \in contents }

\* Archives of the thread exploration: up to MaxPackFiles files, with and
\* without a parent directory, the last of which may have its data past the
\* end of the mapping.
Archives ==
    SeqsUpTo(PackFiles(Contents, PackDirs), MaxPackFiles)
    \cup { Append(a, f) :
             a \in SeqsUpTo(PackFiles(Contents, PackDirs), MaxPackFiles - 1),
             f \in PackFiles(FarContents, PackDirs \ {NoDir}) }

\* Archives of the exploration under fair scheduling: files in a directory,
\* their chunk inside the mapping.
FairArchives ==
    SeqsUpTo(PackFiles(Contents, PackDirs \ {NoDir}), MaxPackFiles)

\* Archives of the chunk-loop exploration: files in a directory.
ChunkArchives ==
    SeqsUpTo(PackFiles(ChunkContents, PackDirs \ {NoDir}), ChunkFiles)

Workers == 0..(MaxThreads - 1)
Free == -1

MainIdle ==
    /\ mainPc = "off" /\ cmd = "none" /\ numPaths = 0 /\ archIdx = 0
    /\ pack = <<>> /\ num_threads = 0 /\ spawned = 0 /\ joined = 0
    /\ procState = "off" /\ exitCode = 0 /\ errLines = 0 /\ fatal = "none"
    /\ termLines = 0 /\ stdoutLines = 0
    /\ console_mutex = Free /\ directory_mutex = Free
    /\ wpc = [w \in Workers |-> "unborn"]
    /\ wj = [w \in Workers |-> 0]
    /\ warch = [w \in Workers |-> 0]
    /\ wexists = [w \in Workers |-> FALSE]
    /\ bytes_out = [w \in Workers |-> 0]
    /\ wci = [w \in Workers |-> 1]
    /\ wlog = [w \in Workers |-> <<>>]
    /\ wfatal = [w \in Workers |-> "none"]
    /\ dirs = {} /\ extracted = <<>>

\* Process start: nothing parsed, no thread, an arbitrary destination tree.
MainInit ==
    /\ mainPc = "args" /\ cmd = "none" /\ numPaths = 0 /\ archIdx = 0
    /\ pack = <<>> /\ num_threads = 0 /\ spawned = 0 /\ joined = 0
    /\ procState = "running" /\ exitCode = 0 /\ errLines = 0
    /\ termLines = 0 /\ fatal = "none" /\ stdoutLines = 0
    /\ console_mutex = Free /\ directory_mutex = Free
    /\ wpc = [w \in Workers |-> "unborn"]
    /\ wj = [w \in Workers |-> 0]
    /\ warch = [w \in Workers |-> 0]
    /\ wexists = [w \in Workers |-> FALSE]
    /\ bytes_out = [w \in Workers |-> 0]
    /\ wci = [w \in Workers |-> 1]
    /\ wlog = [w \in Workers |-> <<>>]
    /\ wfatal = [w \in Workers |-> "none"]
    /\ dirs \in SUBSET (PackDirs \ {NoDir})
    /\ extracted = <<>>

\* catch (const Error& e) { console::error("{}", e.what()); return EXIT_FAILURE; }
MainCatch(kind) ==
    /\ procState' = "exited" /\ exitCode' = 1 /\ errLines' = errLines + 1
    /\ fatal' = kind /\ mainPc' = "end"
    /\ UNCHANGED termLines

\* catch (const std::exception& e) { console::fatal(...); return EXIT_FAILURE; }
MainFatal(kind) ==
    /\ procState' = "exited" /\ exitCode' = 1 /\ errLines' = errLines + 1
    /\ fatal' = kind /\ mainPc' = "end"
    /\ UNCHANGED termLines

\* The statuses of a process killed by a wild read: 139 when the address is
\* not mapped (SIGSEGV), 135 when it lies in a mapping that cannot serve it
\* (SIGBUS).  Which one depends on what lies beyond the mapping.
SIGBUS_STATUS == 135
SIGSEGV_STATUS == 139
FaultStatuses == {SIGBUS_STATUS, SIGSEGV_STATUS}

\* load_pack reads the mapping through raw pointers and indexes chunk_sizes
\* without a check: on an archive cut short, a table that runs past the
\* mapping, a path with no terminator or a chunk index outside the table the
\* read faults and the process is killed by a signal, with no line written
\* and no handler run.
LoadFault ==
    /\ procState' = "killed" /\ exitCode' \in FaultStatuses
    /\ fatal' = "fault"
    /\ mainPc' = "end"
    /\ UNCHANGED <<errLines, termLines>>

\* return EXIT_SUCCESS;
MainReturn ==
    /\ procState' = "exited" /\ exitCode' = 0 /\ mainPc' = "end"
    /\ UNCHANGED <<errLines, termLines, fatal>>

\* program.parse_args and the dispatch on the subcommand. With no file on
\* the command line, get<std::vector<std::string>>("files") may throw a
\* std::logic_error ("No value provided for 'files'."), which is not an
\* Error and reaches the second handler of main.
ParseArgs(maxPaths) ==
    /\ procState = "running" /\ mainPc = "args"
    /\ \E c \in {"bad", "none", "list", "extract"}, n \in 0..maxPaths,
         getThrows \in BOOLEAN :
         /\ cmd' = c
         /\ numPaths' = IF c \in {"list", "extract"} THEN n ELSE 0
         /\ CASE c = "bad" -> MainCatch("args")
              [] c = "none" -> MainReturn
              [] c \in {"list", "extract"} /\ n = 0 /\ getThrows ->
                   MainFatal("nofiles")
              [] c = "list" /\ ~(n = 0 /\ getThrows) ->
                   /\ mainPc' = "list"
                   /\ UNCHANGED <<procState, exitCode, errLines, termLines, fatal>>
              [] c = "extract" /\ ~(n = 0 /\ getThrows) ->
                   /\ mainPc' = "hw"
                   /\ UNCHANGED <<procState, exitCode, errLines, termLines, fatal>>
    /\ UNCHANGED <<archIdx, pack, num_threads, spawned, joined, stdoutLines>>
    /\ UNCHANGED wvars

\* One iteration of cmd_list: load_pack, then one line per file on std::cout.
CmdListStep(archives) ==
    /\ procState = "running" /\ mainPc = "list"
    /\ archIdx < numPaths
    /\ \/ /\ MainCatch("load")
          /\ UNCHANGED <<archIdx, stdoutLines>>
       \/ /\ LoadFault
          /\ UNCHANGED <<archIdx, stdoutLines>>
       \/ \E a \in archives :
            /\ stdoutLines' = stdoutLines + Len(a)
            /\ archIdx' = archIdx + 1
            /\ UNCHANGED <<mainPc, procState, exitCode, errLines, termLines, fatal>>
    /\ UNCHANGED <<cmd, numPaths, pack, num_threads, spawned, joined>>
    /\ UNCHANGED wvars

\* End of the path loop of cmd_list or cmd_extract, back in main.
CmdReturn ==
    /\ procState = "running" /\ mainPc \in {"list", "load"}
    /\ archIdx = numPaths
    /\ MainReturn
    /\ UNCHANGED <<cmd, numPaths, archIdx, pack, num_threads, spawned, joined,
                   stdoutLines>>
    /\ UNCHANGED wvars

\* const size_t num_threads = std::thread::hardware_concurrency();
\* (the standard lets it return 0 when the value is not computable)
HardwareConcurrency(maxThreads) ==
    /\ procState = "running" /\ mainPc = "hw"
    /\ num_threads' \in 0..maxThreads
    /\ mainPc' = "load"
    /\ UNCHANGED <<cmd, numPaths, archIdx, pack, spawned, joined, procState,
                   exitCode, errLines, termLines, fatal, stdoutLines>>
    /\ UNCHANGED wvars

\* Head of the path loop of cmd_extract: load_pack(path), two fresh mutexes
\* and an empty vector of threads.
LoadPack(archives) ==
    /\ procState = "running" /\ mainPc = "load"
    /\ archIdx < numPaths
    /\ \/ /\ MainCatch("load")
          /\ UNCHANGED <<pack, spawned, joined>>
          /\ UNCHANGED wvars
       \/ /\ LoadFault
          /\ UNCHANGED <<pack, spawned, joined>>
          /\ UNCHANGED wvars
       \/ \E a \in archives :
            /\ pack' = a
            /\ spawned' = 0 /\ joined' = 0
            /\ console_mutex' = Free /\ directory_mutex' = Free
            /\ extracted' = [k \in 1..Len(a) |-> <<>>]
            /\ mainPc' = "spawn"
            /\ UNCHANGED <<procState, exitCode, errLines, termLines, fatal>>
            /\ UNCHANGED <<wpc, wj, warch, wexists, bytes_out, wci, wlog,
                           wfatal, dirs>>
    /\ UNCHANGED <<cmd, numPaths, archIdx, num_threads, stdoutLines>>

\* threads.emplace_back([id = i, ...]() {...}): the new thread starts at the
\* head of its file loop with j = id.  The std::thread constructor may throw
\* std::system_error: with no thread in the vector yet the exception unwinds
\* to main's second handler; otherwise unwinding destroys a joinable
\* std::thread, which calls std::terminate.
Spawn ==
    /\ procState = "running" /\ mainPc = "spawn"
    /\ spawned < num_threads
    /\ \/ /\ wpc' = [wpc EXCEPT ![spawned] = "for"]
          /\ wj' = [wj EXCEPT ![spawned] = spawned]
          /\ warch' = [warch EXCEPT ![spawned] = archIdx]
          /\ spawned' = spawned + 1
          /\ UNCHANGED <<mainPc, procState, exitCode, errLines, termLines,
                         fatal>>
       \/ /\ spawned = 0
          /\ MainFatal("spawn")
          /\ UNCHANGED <<wpc, wj, warch, spawned>>
       \/ /\ spawned > 0
          /\ mainPc' = "threw"
          /\ fatal' = "spawn"
          /\ UNCHANGED <<procState, exitCode, errLines, termLines>>
          /\ UNCHANGED <<wpc, wj, warch, spawned>>
    /\ UNCHANGED <<cmd, numPaths, archIdx, pack, num_threads, joined,
                   stdoutLines>>
    /\ UNCHANGED <<console_mutex, directory_mutex, wexists, bytes_out, wci,
                   wlog, wfatal, dirs, extracted>>

\* Exit of the spawning loop.
SpawnEnd ==
    /\ procState = "running" /\ mainPc = "spawn"
    /\ spawned = num_threads
    /\ mainPc' = "join"
    /\ UNCHANGED <<cmd, numPaths, archIdx, pack, num_threads, spawned, joined,
                   procState, exitCode, errLines, termLines, fatal, stdoutLines>>
    /\ UNCHANGED wvars

\* Join as it would be if it returned without waiting for the thread.
JoinNoWait ==
    /\ procState = "running" /\ mainPc = "join"
    /\ joined < num_threads
    /\ joined' = joined + 1
    /\ UNCHANGED <<mainPc, cmd, numPaths, archIdx, pack, num_threads, spawned,
                   procState, exitCode, errLines, termLines, fatal, stdoutLines>>
    /\ UNCHANGED wvars

\* thread.join(): returns once that thread's function has returned.
Join ==
    /\ procState = "running" /\ mainPc = "join"
    /\ joined < num_threads
    /\ wpc[joined] = "finished"
    /\ joined' = joined + 1
    /\ UNCHANGED <<mainPc, cmd, numPaths, archIdx, pack, num_threads, spawned,
                   procState, exitCode, errLines, termLines, fatal, stdoutLines>>
    /\ UNCHANGED wvars

\* End of one iteration of the path loop: every thread has been joined.
NextPath ==
    /\ procState = "running" /\ mainPc = "join"
    /\ joined = num_threads
    /\ archIdx' = archIdx + 1
    /\ mainPc' = "load"
    /\ UNCHANGED <<cmd, numPaths, pack, num_threads, spawned, joined,
                   procState, exitCode, errLines, termLines, fatal, stdoutLines>>
    /\ UNCHANGED wvars

MainNext(maxPaths, maxThreads, archives) ==
    \/ ParseArgs(maxPaths) /\ ToolOnly
    \/ CmdListStep(archives) /\ ToolOnly
    \/ CmdReturn /\ ToolOnly
    \/ HardwareConcurrency(maxThreads) /\ ToolOnly
    \/ LoadPack(archives) /\ ToolOnly
    \/ Spawn /\ ToolOnly
    \/ SpawnEnd /\ ToolOnly
    \/ Join /\ ToolOnly
    \/ NextPath /\ ToolOnly

(***************************************************************************)
(*                 The worker lambda of cmd_extract                        *)
(***************************************************************************)
\* const auto& file = pack.files.at(j)
FileOf(w) == pack[wj[w] + 1]

\* current_dir = std::filesystem::path(file.path).parent_path()
DirOf(w) == FileOf(w).dir

\* A step of a worker that neither throws nor faults leaves the main
\* thread, the process and the record of failures alone.
WorkerUnchangedMain ==
    UNCHANGED <<mainPc, cmd, numPaths, archIdx, pack, num_threads, spawned,
                joined, procState, exitCode, errLines, termLines, fatal,
                stdoutLines, wfatal>>

\* throw Error(...) inside a thread function: nothing catches it, so the
\* thread enters std::terminate (with no unwinding: a lock_guard it holds is
\* never released).  The other threads and main go on until abort() lands;
\* main's handlers never see the exception.
WorkerThrow(w, kind) ==
    /\ wpc' = [wpc EXCEPT ![w] = "threw"]
    /\ wfatal' = [wfatal EXCEPT ![w] = kind]
    /\ UNCHANGED <<mainPc, cmd, numPaths, archIdx, pack, num_threads, spawned,
                   joined, procState, exitCode, errLines, termLines, fatal,
                   stdoutLines>>

\* chunk_data = mmap->begin() + chunk.offset is read by lzokay::decompress or
\* by file_out.write with no comparison against the length of the mapping.
InMapping(chunk) == chunk.offset + chunk.size <= MapSize

\* The read of chunk_data outside the mapping faults: the process is killed
\* by a signal with no line written, the output file left as it was and no
\* thread joined.
WorkerFault(w) ==
    /\ procState' = "killed"
    /\ exitCode' \in FaultStatuses
    /\ wfatal' = [wfatal EXCEPT ![w] = "fault"]
    /\ wpc' = [wpc EXCEPT ![w] = "faulted"]
    /\ UNCHANGED <<mainPc, cmd, numPaths, archIdx, pack, num_threads, spawned,
                   joined, errLines, termLines, fatal, stdoutLines>>

\* for (size_t j = id; j < num_files_in_pack; j += num_threads)
ForHead(w) ==
    /\ procState = "running" /\ wpc[w] = "for"
    /\ wpc' = [wpc EXCEPT ![w] = IF wj[w] < Len(pack) THEN "log" ELSE "finished"]
    /\ WorkerUnchangedMain
    /\ UNCHANGED <<console_mutex, directory_mutex, wj, warch, wexists,
                   bytes_out, wci, wlog, dirs, extracted>>

\* ConsoleLock as it would be without the lock_guard.
ConsoleNoLock(w) ==
    /\ procState = "running" /\ wpc[w] = "log"
    /\ wpc' = [wpc EXCEPT ![w] = "info"]
    /\ WorkerUnchangedMain
    /\ UNCHANGED <<console_mutex, directory_mutex, wj, warch, wexists,
                   bytes_out, wci, wlog, dirs, extracted>>

\* auto lock = std::lock_guard{console_mutex};
ConsoleLock(w) ==
    /\ procState = "running" /\ wpc[w] = "log"
    /\ console_mutex = Free
    /\ console_mutex' = w
    /\ wpc' = [wpc EXCEPT ![w] = "info"]
    /\ WorkerUnchangedMain
    /\ UNCHANGED <<directory_mutex, wj, warch, wexists, bytes_out, wci, wlog,
                   dirs, extracted>>

\* console::info(...): the first characters of the line reach std::cerr.
ConsoleInfoBegin(w) ==
    /\ procState = "running" /\ wpc[w] = "info"
    /\ wpc' = [wpc EXCEPT ![w] = "line"]
    /\ WorkerUnchangedMain
    /\ UNCHANGED <<console_mutex, directory_mutex, wj, warch, wexists,
                   bytes_out, wci, wlog, dirs, extracted>>

\* The line is complete; the lock_guard goes out of scope.
ConsoleInfoEnd(w) ==
    /\ procState = "running" /\ wpc[w] = "line"
    /\ console_mutex' = IF console_mutex = w THEN Free ELSE console_mutex
    /\ wpc' = [wpc EXCEPT ![w] = "dir"]
    /\ WorkerUnchangedMain
    /\ UNCHANGED <<directory_mutex, wj, warch, wexists, bytes_out, wci, wlog,
                   dirs, extracted>>

\* auto lock = std::lock_guard{directory_mutex};
DirLock(w) ==
    /\ procState = "running" /\ wpc[w] = "dir"
    /\ directory_mutex = Free
    /\ directory_mutex' = w
    /\ wpc' = [wpc EXCEPT ![w] = "exists"]
    /\ WorkerUnchangedMain
    /\ UNCHANGED <<console_mutex, wj, warch, wexists, bytes_out, wci, wlog,
                   dirs, extracted>>

\* DirExists with the test inverted: if (std::filesystem::exists(current_dir)).
DirExistsInverted(w) ==
    /\ procState = "running" /\ wpc[w] = "exists"
    /\ wexists' = [wexists EXCEPT ![w] = DirOf(w) \in dirs]
    /\ IF DirOf(w) \notin dirs
       THEN /\ wpc' = [wpc EXCEPT ![w] = "open"]
            /\ directory_mutex' = Free
       ELSE /\ wpc' = [wpc EXCEPT ![w] = "mkdir"]
            /\ UNCHANGED directory_mutex
    /\ WorkerUnchangedMain
    /\ UNCHANGED <<console_mutex, wj, warch, bytes_out, wci, wlog, dirs, extracted>>

\* if (!std::filesystem::exists(current_dir)): when it exists the block ends
\* and the lock is released.  exists("") is false.
DirExists(w) ==
    /\ procState = "running" /\ wpc[w] = "exists"
    /\ wexists' = [wexists EXCEPT ![w] = DirOf(w) \in dirs]
    /\ IF DirOf(w) \in dirs
       THEN /\ wpc' = [wpc EXCEPT ![w] = "open"]
            /\ directory_mutex' = Free
       ELSE /\ wpc' = [wpc EXCEPT ![w] = "mkdir"]
            /\ UNCHANGED directory_mutex
    /\ WorkerUnchangedMain
    /\ UNCHANGED <<console_mutex, wj, warch, bytes_out, wci, wlog, dirs, extracted>>

\* The error_code std::filesystem::create_directories(d, err) sets: an empty
\* path is an invalid argument, a directory that already exists is not an
\* error, otherwise the file system decides.
CreateDirectoriesErr(d, fault) ==
    IF d = NoDir THEN TRUE
    ELSE IF d \in dirs THEN FALSE
    ELSE fault

\* std::filesystem::create_directories(current_dir, err); if (err) throw;
\* then the lock is released.
DirCreate(w) ==
    /\ procState = "running" /\ wpc[w] = "mkdir"
    /\ \E fault \in BOOLEAN :
         IF CreateDirectoriesErr(DirOf(w), fault)
         THEN /\ WorkerThrow(w, "mkdir")
              /\ UNCHANGED <<directory_mutex, dirs>>
         ELSE /\ dirs' = dirs \cup {DirOf(w)}
              /\ directory_mutex' = Free
              /\ wpc' = [wpc EXCEPT ![w] = "open"]
              /\ WorkerUnchangedMain
    /\ UNCHANGED <<console_mutex, wj, warch, wexists, bytes_out, wci, wlog, extracted>>

\* std::ofstream file_out{file.path, out | trunc | binary} fails when the
\* parent directory is missing or the file system refuses.
OfstreamFails(d, fault) == (d # NoDir /\ d \notin dirs) \/ fault

\* std::ofstream file_out{...}; if (!file_out) throw; size_t bytes_out = 0;
OpenOut(w) ==
    /\ procState = "running" /\ wpc[w] = "open"
    /\ \E fault \in BOOLEAN :
         IF OfstreamFails(DirOf(w), fault)
         THEN /\ WorkerThrow(w, "open")
              /\ UNCHANGED <<bytes_out, wci, wlog>>
         ELSE /\ bytes_out' = [bytes_out EXCEPT ![w] = 0]
              /\ wci' = [wci EXCEPT ![w] = 1]
              /\ wlog' = [wlog EXCEPT ![w] = <<>>]
              /\ wpc' = [wpc EXCEPT ![w] = "chunk"]
              /\ WorkerUnchangedMain
    /\ UNCHANGED <<console_mutex, directory_mutex, wj, warch, wexists, dirs, extracted>>

\* ChunkIsCompressed without the comparison against the file's total size.
ChunkIsCompressedSizeOnly(size, out, size_on_disk) ==
    size < LZO_BUFFER_SIZE

\* const bool chunk_is_compressed =
\*   (chunk.size < decompression_buffer.size())
\*   && (bytes_out + chunk.size != file.size_on_disk);
ChunkIsCompressed(size, out, size_on_disk) ==
    (size < LZO_BUFFER_SIZE) /\ (out + size # size_on_disk)

\* One iteration of "for (const auto& chunk : file.chunks)". A chunk whose
\* data lies outside the mapping is read all the same: the read faults, or it
\* finds readable memory and the iteration goes on with what it found.
ChunkStep(w) ==
    /\ procState = "running" /\ wpc[w] = "chunk"
    /\ wci[w] <= Len(FileOf(w).chunks)
    /\ LET chunk == FileOf(w).chunks[wci[w]] IN
       \/ /\ ~InMapping(chunk)
          /\ WorkerFault(w)
          /\ UNCHANGED <<bytes_out, wci, wlog>>
       \/ IF ChunkIsCompressed(chunk.size, bytes_out[w], FileOf(w).size_on_disk)
          THEN \E decompressed_size \in LzoResults :
                 IF decompressed_size = LzoFail
                 THEN /\ WorkerThrow(w, "lzo")
                      /\ UNCHANGED <<bytes_out, wci, wlog>>
                 ELSE /\ bytes_out' = [bytes_out EXCEPT ![w] = @ + decompressed_size]
                      /\ wlog' = [wlog EXCEPT ![w] =
                            Append(@, [compressed |-> TRUE,
                                       produced |-> decompressed_size])]
                      /\ wci' = [wci EXCEPT ![w] = @ + 1]
                      /\ WorkerUnchangedMain
                      /\ UNCHANGED wpc
          ELSE /\ bytes_out' = [bytes_out EXCEPT ![w] = @ + chunk.size]
               /\ wlog' = [wlog EXCEPT ![w] =
                     Append(@, [compressed |-> FALSE, produced |-> chunk.size])]
               /\ wci' = [wci EXCEPT ![w] = @ + 1]
               /\ WorkerUnchangedMain
               /\ UNCHANGED wpc
    /\ UNCHANGED <<console_mutex, directory_mutex, wj, warch, wexists, dirs, extracted>>

\* End of the chunk loop: file_out is closed and j += num_threads.
FileClose(w) ==
    /\ procState = "running" /\ wpc[w] = "chunk"
    /\ wci[w] > Len(FileOf(w).chunks)
    /\ extracted' = [extracted EXCEPT ![wj[w] + 1] = Append(@, w)]
    /\ wj' = [wj EXCEPT ![w] = @ + num_threads]
    /\ bytes_out' = [bytes_out EXCEPT ![w] = 0]
    /\ wci' = [wci EXCEPT ![w] = 1]
    /\ wlog' = [wlog EXCEPT ![w] = <<>>]
    /\ wexists' = [wexists EXCEPT ![w] = FALSE]
    /\ wpc' = [wpc EXCEPT ![w] = "for"]
    /\ WorkerUnchangedMain
    /\ UNCHANGED <<console_mutex, directory_mutex, warch, dirs>>

WorkerNext(w) ==
    \/ ForHead(w) /\ ToolOnly
    \/ ConsoleLock(w) /\ ToolOnly
    \/ ConsoleInfoBegin(w) /\ ToolOnly
    \/ ConsoleInfoEnd(w) /\ ToolOnly
    \/ DirLock(w) /\ ToolOnly
    \/ DirExists(w) /\ ToolOnly
    \/ DirCreate(w) /\ ToolOnly
    \/ OpenOut(w) /\ ToolOnly
    \/ ChunkStep(w) /\ ToolOnly
    \/ FileClose(w) /\ ToolOnly

(***************************************************************************)
(*        std::terminate: the end of a thread whose exception escaped      *)
(***************************************************************************)
MainThread == MaxThreads          \* the id of the main thread, after the workers
Threads == Workers \cup {MainThread}
TerminateLines == 2               \* longest message of the terminate handler

ThreadAt(t, pc) == IF t = MainThread THEN mainPc = pc ELSE wpc[t] = pc

ThreadTo(t, pc) ==
    IF t = MainThread
    THEN mainPc' = pc /\ UNCHANGED wpc
    ELSE wpc' = [wpc EXCEPT ![t] = pc] /\ UNCHANGED mainPc

\* The terminate handler of thread t writes the runtime's message (two
\* lines, "terminate called after throwing ..." and "what(): ...", or one,
\* "terminate called recursively", when another thread is already
\* terminating) and goes on to abort().  A thread stopped by another
\* thread's abort before this step has written nothing.
Terminate(t) ==
    /\ procState = "running" /\ ThreadAt(t, "threw")
    /\ \E n \in 1..TerminateLines : termLines' = termLines + n
    /\ ThreadTo(t, "abort")
    /\ UNCHANGED <<cmd, numPaths, archIdx, pack, num_threads, spawned, joined,
                   procState, exitCode, errLines, fatal, stdoutLines>>
    /\ UNCHANGED <<console_mutex, directory_mutex, wj, warch, wexists,
                   bytes_out, wci, wlog, wfatal, dirs, extracted>>

\* abort() raises SIGABRT: the process and every thread of it end at once
\* (status 134), whatever the other threads were doing.
Abort(t) ==
    /\ procState = "running" /\ ThreadAt(t, "abort")
    /\ procState' = "aborted"
    /\ exitCode' = 134
    /\ UNCHANGED <<mainPc, cmd, numPaths, archIdx, pack, num_threads, spawned,
                   joined, errLines, termLines, fatal, stdoutLines>>
    /\ UNCHANGED wvars

RuntimeNext ==
    \/ (\E t \in Threads : Terminate(t)) /\ ToolOnly
    \/ (\E t \in Threads : Abort(t)) /\ ToolOnly

(***************************************************************************)
(*                           Specifications                                *)
(***************************************************************************)
InitReader == ReaderInit /\ OpenIdle /\ MainIdle
SpecReader == InitReader /\ [][ReaderNext]_vars

InitOpen == ReaderIdle /\ OpenInit /\ MainIdle
SpecOpen == InitOpen /\ [][OpenNext]_vars

Init == ReaderIdle /\ OpenIdle /\ MainInit
MainStep == MainNext(MaxPaths, MaxThreads, Archives)
Next ==
    \/ MainStep
    \/ \E w \in Workers : WorkerNext(w)
    \/ RuntimeNext
Spec == Init /\ [][Next]_vars

\* The same program run on the archives of ChunkArchives.
NextChunk ==
    \/ MainNext(ChunkPaths, ChunkThreads, ChunkArchives)
    \/ \E w \in Workers : WorkerNext(w)
    \/ RuntimeNext
SpecChunk == Init /\ [][NextChunk]_vars

\* Threads are scheduled by the OS: a thread that can take a step, and the
\* main thread, are not held back forever.
MainStepFair == MainNext(MaxPaths, MaxThreads, FairArchives)
NextFair ==
    \/ MainStepFair
    \/ \E w \in Workers : WorkerNext(w)
    \/ RuntimeNext
FairSpec ==
    /\ Init /\ [][NextFair]_vars
    /\ WF_vars(MainStepFair)
    /\ \A w \in Workers : WF_vars(WorkerNext(w))
    /\ WF_vars(RuntimeNext)

(***************************************************************************)
(*                               Properties                                *)
(***************************************************************************)

\* C1: every index used to look up chunk_sizes in the chunk-reconstruction
\* loop is below chunk_count; the loop never reads past the table.
C1_LookupsInTable == \A i \in lookups : i < Len(chunk_sizes)

\* C2: every read is checked against the buffer end: no read touches a
\* position at or beyond the end, u8/u32 raise an error when position + width
\* exceeds the end, and cString raises one when no terminator lies before it.
C2_ReadsBoundsChecked ==
    /\ \A p \in rdAccess : p < Len(buf)
    /\ (rdOp = "u8" /\ rdStart + 1 > Len(buf)) => rdErr
    /\ (rdOp = "u32" /\ rdStart + 4 > Len(buf)) => rdErr
    /\ (rdOp = "cstr" /\ ZerosFrom(rdStart) = {}) => rdErr

Produced(log, n) == SumSeq([i \in 1..n |-> log[i].produced])

\* C3: while a worker is in the chunk loop of a file, the k-th chunk it has
\* handled was decompressed iff its on-disk length is < 65536 and the bytes
\* produced by the chunks before it plus that length differ from the file's
\* total size; a chunk not decompressed yielded exactly its on-disk bytes;
\* chunks are taken in order and bytes_out is the sum of the produced lengths.
C3_ChunkDecision ==
    \A w \in Workers :
        wpc[w] = "chunk" =>
            /\ Len(wlog[w]) = wci[w] - 1
            /\ \A k \in 1..Len(wlog[w]) :
                 LET size == FileOf(w).chunks[k].size
                     before == Produced(wlog[w], k - 1)
                 IN /\ wlog[w][k].compressed <=>
                         (size < 65536 /\ before + size # FileOf(w).size_on_disk)
                    /\ ~wlog[w][k].compressed => wlog[w][k].produced = size
            /\ bytes_out[w] = Produced(wlog[w], Len(wlog[w]))

\* A worker has decompressed the first chunk of a file and written the second
\* one verbatim because it exactly completed the file, although it is short.
C3_Witness ==
    \E w \in Workers :
        /\ wpc[w] = "chunk" /\ Len(wlog[w]) = 2
        /\ wlog[w][1].compressed /\ ~wlog[w][2].compressed
        /\ FileOf(w).chunks[2].size < LZO_BUFFER_SIZE

\* C4: every worker only handles indices congruent to its id modulo N, and
\* once all workers of an archive have been joined without error every file
\* of the archive has been extracted exactly once, by worker (index mod N).
C4_EveryFileOnce ==
    /\ \A k \in DOMAIN extracted : \A i \in DOMAIN extracted[k] :
           num_threads > 0 /\ extracted[k][i] = (k - 1) % num_threads
    /\ (procState = "running" /\ mainPc = "join" /\ joined = num_threads) =>
           \A k \in DOMAIN extracted : Len(extracted[k]) = 1

\* Some thread of the run met an error.
Failed == fatal # "none" \/ \E w \in Workers : wfatal[w] # "none"

\* C5: a run that met a fatal error (raised in main or in a worker) ends with
\* exactly one line on the error stream and a non-zero status; any other run
\* ends with status zero.  Left out are the runs killed by a memory fault
\* (they come from unchecked reads, not from an error the program raises)
\* and the runs in which a thread could not be created.
C5_FatalExit ==
    (procState \in {"exited", "aborted"} /\ fatal # "spawn") =>
        IF Failed THEN errLines + termLines = 1 /\ exitCode # 0
        ELSE exitCode = 0

\* The size_in_pack of record r is the sum of some run of consecutive table
\* entries starting at its first chunk index.
ExactPrefix(r) ==
    \E k \in 0..Len(chunk_sizes) :
        /\ k > 0 => r.first_chunk + k <= Len(chunk_sizes)
        /\ SumSeq(SubSeq(chunk_sizes, r.first_chunk + 1, r.first_chunk + k))
             = r.size_in_pack

\* C6: when some record's on-disk size is not exactly a sum of consecutive
\* chunk sizes starting at its first chunk index, open ends with an error and
\* produces no archive.
C6_InexactSizeFails ==
    (opPc = "done" /\ \E i \in DOMAIN files : ~ExactPrefix(files[i].rec))
        => opResult = "error"

\* C7: at most one worker at a time has a progress line partly written, and
\* it holds the console mutex while it has.
C7_ProgressLinesSerialized ==
    /\ Cardinality({w \in Workers : wpc[w] = "line"}) <= 1
    /\ \A w \in Workers : wpc[w] \in {"info", "line"} => console_mutex = w

\* One worker is in the middle of its line while another waits for the mutex.
C7_Witness ==
    \E w1, w2 \in Workers :
        /\ w1 # w2 /\ wpc[w1] = "line" /\ wpc[w2] = "log"

\* A worker is inside std::terminate or was stopped there by the abort.
Thrown(w) == wpc[w] \in {"threw", "abort"}

\* C8: whatever the interleaving, (1) a worker that is past the directory
\* step finds the parent directory of its file present, so every worker of
\* the directory goes on to open its file; (2) create_directories is only
\* ever called by the holder of the directory mutex on a directory nobody
\* has made, so it never meets a directory made by another worker; (3) a
\* worker that failed to open its file had its directory present, and (4) a
\* worker that found the directory already there never fails at the
\* directory step.  What is left to fail is the file system refusing a call.
C8_DirRaceSafe ==
    /\ \A w \in Workers :
         wpc[w] \in {"open", "chunk"} => DirOf(w) \in dirs
    /\ \A w \in Workers :
         wpc[w] = "mkdir" => directory_mutex = w /\ DirOf(w) \notin dirs
    /\ \A w \in Workers :
         (Thrown(w) /\ wfatal[w] = "open") => DirOf(w) \in dirs
    /\ \A w \in Workers :
         (Thrown(w) /\ wfatal[w] = "mkdir") =>
             ~wexists[w] /\ DirOf(w) \notin dirs /\ directory_mutex = w

\* Two workers write files of the same directory; one created it, the other
\* found it already made.
C8_Witness ==
    \E w1, w2 \in Workers :
        /\ w1 # w2 /\ wpc[w1] = "chunk" /\ wpc[w2] = "chunk"
        /\ DirOf(w1) = DirOf(w2)
        /\ ~wexists[w1] /\ wexists[w2]

\* The thread function of worker w has started and has not returned (a
\* worker inside std::terminate is still a thread of the process).
Running(w) == wpc[w] \notin {"unborn", "finished"}

\* Main is inside the iteration of the path loop that spawned the threads:
\* spawning, joining, or terminating after a failed spawn.
InIteration == mainPc \in {"spawn", "join", "threw", "abort"}

ArchivesSequential ==
    /\ \A w \in Workers :
         Running(w) => warch[w] = archIdx /\ InIteration
    /\ mainPc = "load" => \A w \in Workers : ~Running(w)

\* C9: a running worker always belongs to the archive the main thread is
\* on, and none runs while the next archive is opened; under fair scheduling
\* the run ends, and a run of extract that ends without error has gone
\* through the whole archive list.
C9_ArchivesSequential ==
    /\ []ArchivesSequential
    /\ <>(procState # "running")
    /\ []((procState = "exited" /\ cmd = "extract" /\ ~Failed)
            => archIdx = numPaths /\ \A w \in Workers : ~Running(w))

\* extract has gone through two archives with workers and files and returned.
C9_Witness ==
    /\ procState = "exited" /\ cmd = "extract" /\ ~Failed
    /\ numPaths >= 2 /\ archIdx = numPaths
    /\ num_threads >= 2 /\ Len(pack) >= 2
    /\ \A w \in 0..(num_threads - 1) : wpc[w] = "finished" /\ warch[w] = archIdx - 1

\* C10: the chunk list of every record is the shortest run of consecutive
\* table entries from its first chunk index whose lengths add up to at least
\* its on-disk size: chunk j has the length of entry (first + j) and starts
\* at the data offset plus the lengths before it, all but the last add up to
\* less than the size, and a size of 0 gives an empty list.
C10_ShortestRun ==
    \A i \in DOMAIN files :
        LET r == files[i].rec
            cs == files[i].chunks
            len(n) == SumSeq([j \in 1..n |-> cs[j].size])
        IN /\ \A j \in DOMAIN cs :
                /\ r.first_chunk + j <= Len(chunk_sizes)
                /\ cs[j].size = chunk_sizes[r.first_chunk + j]
                /\ cs[j].offset = r.data_offset + len(j - 1)
           /\ len(Len(cs)) >= r.size_in_pack
           /\ cs # <<>> => len(Len(cs) - 1) < r.size_in_pack
           /\ r.size_in_pack = 0 => cs = <<>>

====
